---- MODULE Spec2Model ----
(***************************************************************************)
(* Model of the advanced-ichimoku-cloud indicator kernels: WMA, Hull MA,   *)
(* classic and Hull Ichimoku lines, EMA, ATR and the Hull signal           *)
(* detectors.  Every engine is a pure function of its arguments; a call    *)
(* takes the idle module to a state that holds the arguments and the       *)
(* returned value, and Return drops them again.                            *)
(*                                                                         *)
(* An f64 is modelled as a pair <<num, den>>: a rational in lowest terms   *)
(* with den > 0, or one of the IEEE-754 specials NaN = <<0,0>>,            *)
(* +inf = <<1,0>>, -inf = <<-1,0>>.  Arithmetic on finite values is exact  *)
(* (rounding and overflow of finite values are not modelled, nor is the    *)
(* sign of zero); arithmetic on the specials follows IEEE-754.             *)
(***************************************************************************)
EXTENDS Integers, Sequences, FiniteSets

VARIABLES fn, prices, high, low, close, other, period, threshold, out

vars == <<fn, prices, high, low, close, other, period, threshold, out>>

---------------------------------------------------------------------------
(* Bounds of the model. *)

\* longest series of full-range samples handed to a single-series engine
MaxLen == 4
\* longest high/low(/close) bar series handed to a multi-series engine
MaxBars == 3
\* finite samples are the integers 0..MaxVal
MaxVal == 2
\* finite samples of a bar series are the integers 0..BarMax
BarMax == 1
\* longest series handed to hullma_trend
MaxSig == 2
\* longest of the long step series handed to hullma (reaches half = 6, sqrt = 3)
LongLen == 12

---------------------------------------------------------------------------
(* f64 values and arithmetic. *)

NaN == <<0, 0>>
PInf == <<1, 0>>
NInf == <<-1, 0>>

IAbs(a) == IF a < 0 THEN -a ELSE a

RECURSIVE GCD(_, _)
GCD(a, b) == IF b = 0 THEN a ELSE GCD(b, a % b)

\* the f64 nearest to the rational a/b (b # 0): the rational itself
Rat(a, b) ==
    LET g == GCD(IAbs(a), IAbs(b))
        s == IF b < 0 THEN -1 ELSE 1
    IN  <<(s * a) \div g, (s * b) \div g>>

\* `k as f64`
Num(k) == <<k, 1>>

is_nan(x) == x = NaN
IsInf(x) == x[2] = 0 /\ x[1] # 0
IsFinite(x) == x[2] > 0
Sign(x) == IF x[1] > 0 THEN 1 ELSE IF x[1] < 0 THEN -1 ELSE 0

FNeg(x) == <<-x[1], x[2]>>

FAdd(x, y) ==
    IF is_nan(x) \/ is_nan(y) THEN NaN
    ELSE IF IsInf(x) THEN (IF IsInf(y) /\ y # x THEN NaN ELSE x)
    ELSE IF IsInf(y) THEN y
    ELSE Rat(x[1] * y[2] + y[1] * x[2], x[2] * y[2])

FSub(x, y) == FAdd(x, FNeg(y))

FMul(x, y) ==
    IF is_nan(x) \/ is_nan(y) THEN NaN
    ELSE IF IsInf(x) \/ IsInf(y)
         THEN (IF Sign(x) * Sign(y) = 0 THEN NaN ELSE <<Sign(x) * Sign(y), 0>>)
    ELSE Rat(x[1] * y[1], x[2] * y[2])

FDiv(x, y) ==
    IF is_nan(x) \/ is_nan(y) THEN NaN
    ELSE IF IsInf(x) THEN (IF IsInf(y) THEN NaN
                           ELSE <<Sign(x) * (IF Sign(y) < 0 THEN -1 ELSE 1), 0>>)
    ELSE IF IsInf(y) THEN Num(0)
    ELSE IF y[1] = 0 THEN (IF x[1] = 0 THEN NaN ELSE <<Sign(x), 0>>)
    ELSE Rat(x[1] * y[2], x[2] * y[1])

FAbs(x) == <<IAbs(x[1]), x[2]>>

\* x > y on f64: false when either side is NaN
FGt(x, y) ==
    IF is_nan(x) \/ is_nan(y) THEN FALSE
    ELSE IF IsInf(x) /\ IsInf(y) THEN x[1] > y[1]
    ELSE x[1] * y[2] > y[1] * x[2]

FLt(x, y) == FGt(y, x)
FEq(x, y) == ~is_nan(x) /\ ~is_nan(y) /\ x = y
FGe(x, y) == FGt(x, y) \/ FEq(x, y)

\* element at 0-based position i
At(s, i) == s[i + 1]

\* vec![v; n]
Fill(v, n) == [k \in 1..n |-> v]

---------------------------------------------------------------------------
(* hull.rs *)

\* variant: the weights run the other way, oldest sample weighted period
RECURSIVE WeightedSumOldestHeaviest(_, _, _, _, _)
WeightedSumOldestHeaviest(ps, p, i, j, acc) ==
    IF j >= p THEN acc
    ELSE WeightedSumOldestHeaviest(ps, p, i, j + 1,
                                   FAdd(acc, FMul(Num(j + 1), At(ps, i - j))))

\* the inner loop of wma_inner: j runs from 0 to period-1 over prices[i-j]
RECURSIVE WeightedSum(_, _, _, _, _)
WeightedSum(ps, p, i, j, acc) ==
    IF j >= p THEN acc
    ELSE WeightedSum(ps, p, i, j + 1, FAdd(acc, FMul(Num(p - j), At(ps, i - j))))

\* variant: only the positions with a full window are returned
wma_inner_valid_only(ps, p) ==
    LET n == Len(ps) IN
    IF n < p \/ p = 0 THEN <<>>
    ELSE [k \in 1..(n - p + 1) |->
            FDiv(WeightedSum(ps, p, k + p - 2, 0, Num(0)), FDiv(Num(p * (p + 1)), Num(2)))]

wma_inner(ps, p) ==
    LET n == Len(ps) IN
    IF n < p \/ p = 0 THEN Fill(NaN, n)
    ELSE LET weight_sum == FDiv(Num(p * (p + 1)), Num(2)) IN
         [k \in 1..n |->
            IF k - 1 < p - 1 THEN NaN
            ELSE FDiv(WeightedSum(ps, p, k - 1, 0, Num(0)), weight_sum)]

\* (period as f64).sqrt() as usize
SqrtFloor(p) == CHOOSE r \in 0..p : r * r <= p /\ (r + 1) * (r + 1) > p

IMax(a, b) == IF a >= b THEN a ELSE b

half_period(p) == IMax(p \div 2, 2)

\* variant: the square root is used without the floor of 2
sqrt_period_unclamped(p) == SqrtFloor(p)

sqrt_period(p) == IMax(SqrtFloor(p), 2)

\* variant: the slow WMA is taken over half_period as well
raw_hma_half_only(ps, p) ==
    LET wma_half == wma_inner(ps, half_period(p))
    IN  [k \in 1..Len(ps) |->
            IF is_nan(wma_half[k]) THEN NaN
            ELSE FSub(FMul(Num(2), wma_half[k]), wma_half[k])]

\* step 3 of hullma_inner: the lag-eliminated series
raw_hma(ps, p) ==
    LET wma_half == wma_inner(ps, half_period(p))
        wma_full == wma_inner(ps, p)
    IN  [k \in 1..Len(ps) |->
            IF is_nan(wma_half[k]) \/ is_nan(wma_full[k]) THEN NaN
            ELSE FSub(FMul(Num(2), wma_half[k]), wma_full[k])]

hullma_inner(ps, p) ==
    LET n == Len(ps) IN
    IF n < p \/ p = 0 THEN Fill(NaN, n)
    ELSE wma_inner(raw_hma(ps, p), sqrt_period(p))

---------------------------------------------------------------------------
(* ichimoku.rs *)

\* the inner scan of ichimoku_line_inner over j in from..=to, for max_high
RECURSIVE ScanMax(_, _, _, _)
ScanMax(hs, j, to, max_high) ==
    IF j > to THEN max_high
    ELSE ScanMax(hs, j + 1, to, IF FGt(At(hs, j), max_high) THEN At(hs, j) ELSE max_high)

\* the same scan for min_low
RECURSIVE ScanMin(_, _, _, _)
ScanMin(ls, j, to, min_low) ==
    IF j > to THEN min_low
    ELSE ScanMin(ls, j + 1, to, IF FLt(At(ls, j), min_low) THEN At(ls, j) ELSE min_low)

\* result[i] of the main loop, i >= period - 1
Midpoint(hs, ls, p, i) ==
    FDiv(FAdd(ScanMax(hs, i - p + 2, i, At(hs, i - p + 1)),
              ScanMin(ls, i - p + 2, i, At(ls, i - p + 1))), Num(2))

\* variant: the backfill of the first period - 1 positions is left out
ichimoku_line_inner_no_backfill(hs, ls, p) ==
    LET n == Len(hs) IN
    IF n < p \/ p = 0 THEN Fill(Num(0), n)
    ELSE [k \in 1..n |-> IF k - 1 < p - 1 THEN Num(0) ELSE Midpoint(hs, ls, p, k - 1)]

ichimoku_line_inner(hs, ls, p) ==
    LET n == Len(hs) IN
    IF n < p \/ p = 0 THEN Fill(Num(0), n)
    ELSE LET result == [k \in 1..n |->
                          IF k - 1 < p - 1 THEN Num(0) ELSE Midpoint(hs, ls, p, k - 1)]
         IN  IF p - 1 < n /\ p > 1
             THEN [k \in 1..n |-> IF k - 1 < p - 1 THEN At(result, p - 1) ELSE result[k]]
             ELSE result

---------------------------------------------------------------------------
(* ichimoku_hull.rs *)

hl_median(hs, ls) == [k \in 1..Len(hs) |-> FDiv(FAdd(hs[k], ls[k]), Num(2))]

ichimoku_line_hull_inner(hs, ls, p) == hullma_inner(hl_median(hs, ls), p)

---------------------------------------------------------------------------
(* indicators.rs *)

\* variant: Wilder's smoothing constant 1 / period
AlphaWilder(p) == FDiv(Num(1), Num(p))

\* alpha = 2.0 / (period as f64 + 1.0)
Alpha(p) == FDiv(Num(2), FAdd(Num(p), Num(1)))

\* the loop of ema over i in 1..n; res holds result[0..i)
RECURSIVE EmaLoop(_, _, _, _)
EmaLoop(d, alpha, i, res) ==
    IF i >= Len(d) THEN res
    ELSE EmaLoop(d, alpha, i + 1,
                 Append(res, FAdd(FMul(alpha, At(d, i)),
                                  FMul(FSub(Num(1), alpha), At(res, i - 1)))))

ema_fn(d, p) ==
    LET n == Len(d) IN
    IF n = 0 \/ p = 0 THEN Fill(Num(0), n)
    ELSE EmaLoop(d, Alpha(p), 1, <<At(d, 0)>>)

\* variant: the distances to the previous close are taken without abs()
TrueRangeAtSigned(hs, ls, cs, i) ==
    LET hl == FSub(At(hs, i), At(ls, i))
        hpc == FSub(At(hs, i), At(cs, i - 1))
        lpc == FSub(At(ls, i), At(cs, i - 1))
    IN  IF FGe(hl, hpc) /\ FGe(hl, lpc) THEN hl
        ELSE IF FGe(hpc, hl) /\ FGe(hpc, lpc) THEN hpc
        ELSE lpc

\* tr[i] for i >= 1: the three-way comparison
TrueRangeAt(hs, ls, cs, i) ==
    LET hl == FSub(At(hs, i), At(ls, i))
        hpc == FAbs(FSub(At(hs, i), At(cs, i - 1)))
        lpc == FAbs(FSub(At(ls, i), At(cs, i - 1)))
    IN  IF FGe(hl, hpc) /\ FGe(hl, lpc) THEN hl
        ELSE IF FGe(hpc, hl) /\ FGe(hpc, lpc) THEN hpc
        ELSE lpc

\* the tr vector of atr (n > 0)
TrueRange(hs, ls, cs) ==
    [k \in 1..Len(hs) |->
        IF k = 1 THEN FSub(hs[1], ls[1]) ELSE TrueRangeAt(hs, ls, cs, k - 1)]

\* sum_tr after the loop over i in from..to-1
RECURSIVE SumTr(_, _, _, _)
SumTr(tr, i, to, sum_tr) ==
    IF i >= to THEN sum_tr ELSE SumTr(tr, i + 1, to, FAdd(sum_tr, At(tr, i)))

\* Wilder's smoothing loop over i in period..n; res holds result[0..i)
RECURSIVE WilderLoop(_, _, _, _)
WilderLoop(tr, p, i, res) ==
    IF i >= Len(tr) THEN res
    ELSE WilderLoop(tr, p, i + 1,
                    Append(res, FDiv(FAdd(FMul(FSub(Num(p), Num(1)), At(res, i - 1)),
                                          At(tr, i)), Num(p))))

\* variant: a period longer than the input is cut down to the input
atr_fn_partial(hs, ls, cs, p) ==
    LET n == Len(hs)
        q == IF p <= n THEN p ELSE n
    IN  IF n = 0 \/ p = 0 THEN Fill(Num(0), n)
        ELSE LET tr == TrueRange(hs, ls, cs) IN
             WilderLoop(tr, q, q,
                        Fill(Num(0), q - 1) \o <<FDiv(SumTr(tr, 0, q, Num(0)), Num(q))>>)

atr_fn(hs, ls, cs, p) ==
    LET n == Len(hs) IN
    IF n = 0 \/ p = 0 THEN Fill(Num(0), n)
    ELSE IF p <= n
         THEN LET tr == TrueRange(hs, ls, cs) IN
              WilderLoop(tr, p, p,
                         Fill(Num(0), p - 1) \o <<FDiv(SumTr(tr, 0, p, Num(0)), Num(p))>>)
         ELSE Fill(Num(0), n)

---------------------------------------------------------------------------
(* hull_signals.rs *)

\* variant: the element before the last is compared
hullma_trend_fn_previous(short, long) ==
    IF Len(short) < 2 \/ Len(long) < 2 THEN 0
    ELSE LET current_short == At(short, Len(short) - 2)
             current_long == At(long, Len(long) - 2)
         IN  IF is_nan(current_short) \/ is_nan(current_long) THEN 0
             ELSE IF FGt(current_short, current_long) THEN 1
             ELSE IF FLt(current_short, current_long) THEN -1
             ELSE 0

hullma_trend_fn(short, long) ==
    IF Len(short) < 2 \/ Len(long) < 2 THEN 0
    ELSE LET current_short == At(short, Len(short) - 1)
             current_long == At(long, Len(long) - 1)
         IN  IF is_nan(current_short) \/ is_nan(current_long) THEN 0
             ELSE IF FGt(current_short, current_long) THEN 1
             ELSE IF FLt(current_short, current_long) THEN -1
             ELSE 0

\* recent_return of hullma_bounce (len >= 2)
recent_return(ps) ==
    FSub(FDiv(At(ps, Len(ps) - 1), At(ps, Len(ps) - 2)), Num(1))

\* variant: the downward test misses the negation of the threshold
hullma_bounce_fn_unsigned(ps, th) ==
    IF Len(ps) < 2 THEN <<FALSE, FALSE, Num(0)>>
    ELSE <<FGt(recent_return(ps), th),
           FLt(recent_return(ps), th),
           FAbs(recent_return(ps))>>

hullma_bounce_fn(ps, th) ==
    IF Len(ps) < 2 THEN <<FALSE, FALSE, Num(0)>>
    ELSE <<FGt(recent_return(ps), th),
           FLt(recent_return(ps), FNeg(th)),
           FAbs(recent_return(ps))>>

---------------------------------------------------------------------------
(* Inputs. *)

Finite == {Num(k) : k \in 0..MaxVal}
Vals == Finite \cup {NaN, PInf, NInf}
LongVals == {Num(1), Num(2), NaN}
BarVals == {Num(k) : k \in 0..BarMax} \cup {NaN}
Thresholds == {Rat(-1, 2), Num(0), Rat(1, 2), Num(1), NaN}

SeqsUpTo(S, n) == UNION {[1..k -> S] : k \in 0..n}

Series == SeqsUpTo(Vals, MaxLen)
\* a series of k samples that holds a up to position c and b from there on
Step(k, c, a, b) == [i \in 1..k |-> IF i <= c THEN a ELSE b]
LongSeries ==
    {Step(k[1], k[2], a, b) :
        k \in {x \in ((MaxLen + 1)..LongLen) \X (0..LongLen) : x[2] < x[1]},
        a \in LongVals, b \in LongVals}
ShortSeries == SeqsUpTo(Vals, MaxSig)
Periods == 0..(MaxLen + 1)
LongPeriods == 0..LongLen
BarPeriods == 0..(MaxBars + 1)
BarLens == 0..MaxBars

PeriodsFor(ps) == IF Len(ps) > MaxLen THEN LongPeriods ELSE Periods

---------------------------------------------------------------------------
(* State machine. *)

Init ==
    /\ fn = "idle"
    /\ prices = <<>> /\ high = <<>> /\ low = <<>> /\ close = <<>> /\ other = <<>>
    /\ period = 0 /\ threshold = Num(0) /\ out = <<>>

wma ==
    /\ fn = "idle"
    /\ \E ps \in Series : \E p \in Periods :
          /\ prices' = ps /\ period' = p
          /\ out' = wma_inner(ps, p)
    /\ fn' = "wma"
    /\ UNCHANGED <<high, low, close, other, threshold>>

hullma ==
    /\ fn = "idle"
    /\ \E ps \in Series \cup LongSeries : \E p \in PeriodsFor(ps) :
          /\ prices' = ps /\ period' = p
          /\ out' = hullma_inner(ps, p)
    /\ fn' = "hullma"
    /\ UNCHANGED <<high, low, close, other, threshold>>

ichimoku_line ==
    /\ fn = "idle"
    /\ \E n \in BarLens : \E hs \in [1..n -> BarVals] : \E ls \in [1..n -> BarVals] :
       \E p \in BarPeriods :
          /\ high' = hs /\ low' = ls /\ period' = p
          /\ out' = ichimoku_line_inner(hs, ls, p)
    /\ fn' = "ichimoku_line"
    /\ UNCHANGED <<prices, close, other, threshold>>

ichimoku_line_hull ==
    /\ fn = "idle"
    /\ \E n \in BarLens : \E hs \in [1..n -> BarVals] : \E ls \in [1..n -> BarVals] :
       \E p \in BarPeriods :
          /\ high' = hs /\ low' = ls /\ period' = p
          /\ out' = ichimoku_line_hull_inner(hs, ls, p)
    /\ fn' = "ichimoku_line_hull"
    /\ UNCHANGED <<prices, close, other, threshold>>

ema ==
    /\ fn = "idle"
    /\ \E d \in Series : \E p \in Periods :
          /\ prices' = d /\ period' = p
          /\ out' = ema_fn(d, p)
    /\ fn' = "ema"
    /\ UNCHANGED <<high, low, close, other, threshold>>

atr ==
    /\ fn = "idle"
    /\ \E n \in BarLens : \E hs \in [1..n -> BarVals] : \E ls \in [1..n -> BarVals] :
       \E cs \in [1..n -> BarVals] : \E p \in BarPeriods :
          /\ high' = hs /\ low' = ls /\ close' = cs /\ period' = p
          /\ out' = atr_fn(hs, ls, cs, p)
    /\ fn' = "atr"
    /\ UNCHANGED <<prices, other, threshold>>

hullma_trend ==
    /\ fn = "idle"
    /\ \E short \in ShortSeries : \E long \in ShortSeries :
          /\ prices' = short /\ other' = long
          /\ out' = hullma_trend_fn(short, long)
    /\ fn' = "hullma_trend"
    /\ UNCHANGED <<high, low, close, period, threshold>>

hullma_bounce ==
    /\ fn = "idle"
    /\ \E ps \in Series : \E th \in Thresholds :
          /\ prices' = ps /\ threshold' = th
          /\ out' = hullma_bounce_fn(ps, th)
    /\ fn' = "hullma_bounce"
    /\ UNCHANGED <<high, low, close, other, period>>

\* the caller drops the arguments and the returned buffer
Return ==
    /\ fn # "idle"
    /\ fn' = "idle"
    /\ prices' = <<>> /\ high' = <<>> /\ low' = <<>> /\ close' = <<>> /\ other' = <<>>
    /\ period' = 0 /\ threshold' = Num(0) /\ out' = <<>>

Next ==
    \/ wma \/ hullma \/ ichimoku_line \/ ichimoku_line_hull
    \/ ema \/ atr \/ hullma_trend \/ hullma_bounce \/ Return

Spec == Init /\ [][Next]_vars

NextHull == wma \/ hullma \/ Return
SpecHull == Init /\ [][NextHull]_vars

NextIchimoku == ichimoku_line \/ ichimoku_line_hull \/ Return
SpecIchimoku == Init /\ [][NextIchimoku]_vars

NextEma == ema \/ Return
SpecEma == Init /\ [][NextEma]_vars

NextAtr == atr \/ Return
SpecAtr == Init /\ [][NextAtr]_vars

NextSignals == hullma_trend \/ hullma_bounce \/ Return
SpecSignals == Init /\ [][NextSignals]_vars

---------------------------------------------------------------------------
(* Properties.  Positions are 0-based as in the source; out[i + 1] is      *)
(* position i of the returned series.                                      *)

SeriesEngines == {"wma", "hullma", "ema"}
BarEngines == {"ichimoku_line", "ichimoku_line_hull", "atr"}

AllAre(s, v) == \A k \in DOMAIN s : s[k] = v
IsSeries(s, n) == DOMAIN s = 1..n

\* the primary (first) input series of the call in progress
Primary == IF fn \in SeriesEngines THEN prices ELSE high

\* C1: every series-returning engine (wma, hullma, ichimoku_line,
\* ichimoku_line_hull, ema, atr) returns a series exactly as long as its
\* primary input, for every length n >= 0 and every period >= 0, period 0
\* and period > n included.
C1_LengthPreserved ==
    fn \in SeriesEngines \cup BarEngines => IsSeries(out, Len(Primary))

\* a Hull MA call whose period exceeds the input length still returns n values
C1_Witness ==
    /\ fn = "hullma" /\ Len(prices) = 3 /\ period = 5 /\ Len(out) = 3

\* positions lo..hi (0-based, inclusive) of s
Window(s, lo, hi) == {At(s, j) : j \in lo..hi}

NoNaN(S) == \A x \in S : ~is_nan(x)
AllFinite(S) == \A x \in S : IsFinite(x)

\* sum over j in 0..p-1 of (p - j) * numerator(s[i - j]); the modelled
\* finite samples all have denominator 1
WeightedNumerators(s, p, i) ==
    LET acc[j \in 0..p] ==
            IF j = 0 THEN 0 ELSE acc[j - 1] + (p - (j - 1)) * At(s, i - (j - 1))[1]
    IN  acc[p]

\* the value C2 gives position i: newest sample weighted p, oldest 1, over
\* p(p+1)/2.  A window that holds infinities sums, in IEEE arithmetic, to that
\* infinity, or to NaN when it holds both.
ClaimedWma(s, p, i) ==
    LET w == Window(s, i - p + 1, i) IN
    IF AllFinite(w) THEN Rat(2 * WeightedNumerators(s, p, i), p * (p + 1))
    ELSE IF PInf \in w /\ NInf \in w THEN NaN
    ELSE IF PInf \in w THEN PInf
    ELSE NInf

\* C2: with len(S) >= p > 0, wma(S,p) is NaN at every position in [0,p-1),
\* and at every position i in [p-1,len(S)) whose window S[i-p+1..i] holds no
\* NaN it equals (sum over j of (p-j)*S[i-j]) / (p*(p+1)/2); when len(S) < p
\* or p = 0 every position is NaN.
C2_WmaValues ==
    fn = "wma" =>
        LET n == Len(prices) IN
        IF n < period \/ period = 0 THEN IsSeries(out, n) /\ AllAre(out, NaN)
        ELSE \A i \in 0..(n - 1) :
                /\ i < period - 1 => is_nan(At(out, i))
                /\ (i >= period - 1 /\ NoNaN(Window(prices, i - period + 1, i)))
                      => At(out, i) = ClaimedWma(prices, period, i)

\* wma([1,2,0,1], 3): position 2 is (3*0 + 2*2 + 1*1)/6 = 5/6
C2_Witness ==
    /\ fn = "wma" /\ period = 3
    /\ prices = <<Num(1), Num(2), Num(0), Num(1)>>
    /\ At(out, 2) = <<5, 6>> /\ is_nan(At(out, 1))

\* length of the leading run of NaN positions
LeadingNaN(s) ==
    IF \A k \in DOMAIN s : is_nan(s[k]) THEN Len(s)
    ELSE (CHOOSE k \in DOMAIN s : ~is_nan(s[k]) /\ \A m \in 1..(k - 1) : is_nan(s[m])) - 1

\* C3: for every series S and every period p, the leading run of NaN
\* positions of hullma(S,p) is at least as long as that of wma(S,p).
C3_HullPrefixCoversWma ==
    fn = "hullma" => LeadingNaN(out) >= LeadingNaN(wma_inner(prices, period))

\* a NaN-free input where the Hull MA run (3) is strictly longer than the
\* WMA run (2)
C3_Witness ==
    /\ fn = "hullma" /\ period = 3 /\ Len(prices) = 4 /\ NoNaN(Window(prices, 0, 3))
    /\ LeadingNaN(out) = 3 /\ LeadingNaN(wma_inner(prices, period)) = 2

\* k of C10: the first position of hullma(S,p) that has every window full
FirstFull(p) == IMax(p, IMax(p \div 2, 2)) + IMax(SqrtFloor(p), 2) - 2

\* the NaN layout C10 gives hullma(S,p) for 0 < p <= n
C10_Layout ==
    LET n == Len(prices)
        k == FirstFull(period)
    IN  /\ \A i \in 0..(n - 1) : is_nan(At(out, i)) <=> i < k
        /\ period = 1 => /\ \A i \in 0..(n - 1) : i < 2 => is_nan(At(out, i))
                         /\ out # prices
                         /\ wma_inner(prices, 1) = prices

\* C10 as stated: for every NaN-free series S of length n and period p with
\* 0 < p <= n, hullma(S,p) is NaN at every position below min(k, n) and
\* non-NaN at every position in [k, n), k = max(p, half) + sq - 2; for p = 1
\* the first two positions are NaN although wma(S,1) = S.
C10_NaNFreeLayout ==
    (/\ fn = "hullma" /\ 0 < period /\ period <= Len(prices)
     /\ NoNaN(Window(prices, 0, Len(prices) - 1))) => C10_Layout

\* C10 amended: the same layout for every series S of finite samples (no
\* NaN and no infinity).
C10_FiniteLayout ==
    (/\ fn = "hullma" /\ 0 < period /\ period <= Len(prices)
     /\ AllFinite(Window(prices, 0, Len(prices) - 1))) => C10_Layout

\* period 9 on 11 finite samples: half = 4, sqrt = 3, k = 10, so only the
\* last position is defined
C10_Witness ==
    /\ fn = "hullma" /\ period = 9 /\ Len(prices) = 11
    /\ AllFinite(Window(prices, 0, 10))
    /\ is_nan(At(out, 9)) /\ ~is_nan(At(out, 10))

\* the greatest and the least element of a NaN-free set of f64 values
MaxOf(S) == CHOOSE m \in S : \A x \in S : FGe(m, x)
MinOf(S) == CHOOSE m \in S : \A x \in S : FGe(x, m)

Sentinel == IF fn \in {"wma", "hullma", "ichimoku_line_hull"} THEN NaN ELSE Num(0)

\* C5 as stated: for every series-returning engine, ema included, an input
\* shorter than the period gives a series that is the engine's sentinel at
\* every position.
C5_ShortInputSentinel ==
    (fn \in SeriesEngines \cup BarEngines /\ Len(Primary) < period)
        => IsSeries(out, Len(Primary)) /\ AllAre(out, Sentinel)

\* C5 amended: wma, hullma, ichimoku_line, ichimoku_line_hull and atr return
\* the sentinel at every position of an input shorter than the period; ema
\* makes no such check and returns its seeded recurrence, result[0] = data[0].
C5_ShortInputSentinelButEma ==
    /\ (fn \in (SeriesEngines \cup BarEngines) \ {"ema"} /\ Len(Primary) < period)
          => IsSeries(out, Len(Primary)) /\ AllAre(out, Sentinel)
    /\ (fn = "ema" /\ Len(prices) < period)
          => IsSeries(out, Len(prices)) /\ (Len(prices) > 0 => At(out, 0) = At(prices, 0))

\* atr on two bars with period 3: the true ranges are not zero, the output is
C5_Witness ==
    /\ fn = "atr" /\ period = 3 /\ Len(high) = 2
    /\ high = <<Num(1), Num(1)>> /\ low = <<Num(0), Num(0)>>
    /\ out = <<Num(0), Num(0)>>

\* alpha*D[i] + (1-alpha)*prev with alpha = 2/(p+1), in f64 arithmetic
EmaStep(p, d, prev) ==
    FAdd(FMul(FDiv(Num(2), Num(p + 1)), d),
         FMul(FSub(Num(1), FDiv(Num(2), Num(p + 1))), prev))

\* the seed and the recurrence of C6, and the all-zero degenerate case
C6_Recurrence ==
    LET n == Len(prices) IN
    IF n = 0 \/ period = 0 THEN IsSeries(out, n) /\ AllAre(out, Num(0))
    ELSE /\ At(out, 0) = At(prices, 0)
         /\ \A i \in 1..(n - 1) : At(out, i) = EmaStep(period, At(prices, i), At(out, i - 1))

ClaimedTr(hs, ls, cs, i) ==
    IF i = 0 THEN FSub(At(hs, 0), At(ls, 0))
    ELSE MaxOf({FSub(At(hs, i), At(ls, i)),
                FAbs(FSub(At(hs, i), At(cs, i - 1))),
                FAbs(FSub(At(ls, i), At(cs, i - 1)))})

\* sum of tr[0..p)
ClaimedTrSum(hs, ls, cs, p) ==
    LET acc[j \in 0..p] ==
            IF j = 0 THEN Num(0) ELSE FAdd(acc[j - 1], ClaimedTr(hs, ls, cs, j - 1))
    IN  acc[p]

BarsNoNaN ==
    /\ NoNaN(Window(high, 0, Len(high) - 1))
    /\ NoNaN(Window(low, 0, Len(low) - 1))
    /\ NoNaN(Window(close, 0, Len(close) - 1))

Last(s) == At(s, Len(s) - 1)

\* C8: hullma_trend returns a value in {-1, 0, 1}: 0 when either series has
\* length < 2, when either last element is NaN or when the two last elements
\* are equal; otherwise 1 if last(short) > last(long) and -1 if
\* last(short) < last(long); only the last element of each series counts.
C8_Trend ==
    fn = "hullma_trend" =>
        /\ out \in {-1, 0, 1}
        /\ IF Len(prices) < 2 \/ Len(other) < 2 THEN out = 0
           ELSE IF is_nan(Last(prices)) \/ is_nan(Last(other)) THEN out = 0
           ELSE IF Last(prices) = Last(other) THEN out = 0
           ELSE /\ FGt(Last(prices), Last(other)) => out = 1
                /\ FLt(Last(prices), Last(other)) => out = -1
                /\ out # 0

\* short ends above long although it starts below it
C8_Witness ==
    /\ fn = "hullma_trend"
    /\ prices = <<Num(0), Num(2)>> /\ other = <<Num(2), Num(1)>>
    /\ out = 1

\* recent_return of C9: prices[last]/prices[last-1] - 1
ClaimedReturn(s) == FSub(FDiv(At(s, Len(s) - 1), At(s, Len(s) - 2)), Num(1))

\* C9: for every threshold >= 0, hullma_bounce never returns is_bounce_up
\* and is_bounce_down both true; with length >= 2, is_bounce_up holds exactly
\* when recent_return > threshold, is_bounce_down exactly when
\* recent_return < -threshold, and bounce_strength = |recent_return|; with
\* length < 2 the result is (false, false, 0.0).
C9_Bounce ==
    (fn = "hullma_bounce" /\ FGe(threshold, Num(0))) =>
        /\ ~(out[1] /\ out[2])
        /\ IF Len(prices) < 2 THEN out = <<FALSE, FALSE, Num(0)>>
           ELSE /\ out[1] <=> FGt(ClaimedReturn(prices), threshold)
                /\ out[2] <=> FLt(ClaimedReturn(prices), FNeg(threshold))
                /\ out[3] = FAbs(ClaimedReturn(prices))

\* the last price halves: recent_return = -1/2 against a threshold of 0
C9_Witness ==
    /\ fn = "hullma_bounce" /\ threshold = Num(0)
    /\ Len(prices) = 3 /\ At(prices, 1) = Num(2) /\ At(prices, 2) = Num(1)
    /\ out = <<FALSE, TRUE, <<1, 2>>>>

====
